---- MODULE Spec2Model ----
(***************************************************************************)
(* Voice Runner backend (src/backend/main.py): the upload handlers, the    *)
(* record store on the local filesystem, and the statistics/export scans.  *)
(*                                                                         *)
(* Strings that the program builds, edits or compares character by         *)
(* character (ids, timestamps, file names, paths) are sequences of         *)
(* one-character strings.  Names fixed by the code (dict keys, exception   *)
(* names, handler names) are plain TLA+ strings.                           *)
(***************************************************************************)
EXTENDS Integers, Sequences, FiniteSets, Bags, TLC

VARIABLES
    sessions,   \* files under data/sessions/: path -> JSON text
    metadata,   \* files under data/metadata/: path -> JSON text
    audio,      \* files under data/audio/:    path -> bytes
    bucket,     \* objects of the R2 bucket:    key -> bytes
    config,     \* the environment read at startup (STORAGE_TYPE, R2_ENDPOINT)
    now,        \* datetime.utcnow(), in whole seconds since 2024-01-01T00:00:00
    nwrites,    \* number of write requests handled so far (bounded)
    last,       \* the last request handled and the response it got
    hist,       \* history: what the successful writes so far have saved
    inflight    \* upload_audio requests suspended at `await audio.read()`

vars == <<sessions, metadata, audio, bucket, config, now, nwrites, last, hist, inflight>>

-----------------------------------------------------------------------------
(* Bounds of the model *)

\* the clock runs over the seconds 0..MaxClock
MaxClock == 1
\* at most this many write requests (uploads, background batches) are handled
MaxWrites == 2

-----------------------------------------------------------------------------
(* Python values as they appear in JSON documents and dicts.  Every value  *)
(* has the same four fields, so that any two can be compared.              *)

JNull     == [t |-> "null",  s |-> <<>>, n |-> 0, l |-> <<>>]
JStr(str) == [t |-> "str",   s |-> str,  n |-> 0, l |-> <<>>]
JInt(i)   == [t |-> "int",   s |-> <<>>, n |-> i, l |-> <<>>]
\* a float, in tenths
JFloat(i) == [t |-> "float", s |-> <<>>, n |-> i, l |-> <<>>]
JBool(b)  == [t |-> "bool",  s |-> <<>>, n |-> IF b THEN 1 ELSE 0, l |-> <<>>]
\* a list of strings
JList(ss) == [t |-> "list",  s |-> <<>>, n |-> 0, l |-> ss]

\* the empty dict
EmptyDict == [k \in {} |-> JNull]

\* dict.get(key, default)
DictGet(d, key, default) == IF key \in DOMAIN d THEN d[key] ELSE default

-----------------------------------------------------------------------------
(* JSON text.  A document is the sequence of its top-level members in the  *)
(* order written; kind tells an object from an array from text that is no  *)
(* JSON document (garbage, or an object cut short before its closing       *)
(* brace).                                                                 *)

JsonObject(members) == [members |-> members, kind |-> "object"]
JsonArray == [members |-> <<>>, kind |-> "array"]
JsonGarbage(members) == [members |-> members, kind |-> "garbage"]

\* the dict a sequence of members denotes: a repeated key keeps its last value
DictOf(members) ==
    [k \in {members[i][1] : i \in DOMAIN members} |->
        members[CHOOSE i \in DOMAIN members :
                    /\ members[i][1] = k
                    /\ \A j \in (i + 1)..Len(members) : members[j][1] # k][2]]

\* json.loads / json.load: the exception raised ("" for none) and the value
JsonLoads(text) ==
    CASE text.kind = "garbage" -> [exc |-> "JSONDecodeError", py |-> "none", d |-> EmptyDict]
      [] text.kind = "array"   -> [exc |-> "", py |-> "list", d |-> EmptyDict]
      [] OTHER                 -> [exc |-> "", py |-> "dict", d |-> DictOf(text.members)]

\* json.dump(d, f, indent=2) of a dict whose keys were inserted in `order`
JsonDump(d, order) ==
    JsonObject([i \in 1..Len(order) |-> <<order[i], d[order[i]]>>])

-----------------------------------------------------------------------------
(* The pydantic models *)

Field(name, type, required, nullable, default) ==
    [default |-> default, name |-> name, type |-> type,
     required |-> required, nullable |-> nullable]
Required(name, type) == Field(name, type, TRUE, FALSE, JNull)
OptionalStr(name)    == Field(name, "str", FALSE, TRUE, JNull)
Defaulted(name, type, default) == Field(name, type, FALSE, FALSE, default)

SessionData ==
    << Required("id", "str"),
       Required("playerId", "str"),
       OptionalStr("deviceType"),
       OptionalStr("browser"),
       OptionalStr("demographicAgeRange"),
       OptionalStr("demographicParish"),
       OptionalStr("demographicPatoisFirst"),
       Defaulted("calibrationPhrases", "list", JList(<<>>)),
       Defaulted("totalPhrasesAttempted", "int", JInt(0)),
       Defaulted("totalPhrasesSucceeded", "int", JInt(0)),
       Defaulted("finalScore", "int", JInt(0)),
       Defaulted("maxLevelReached", "int", JInt(1)),
       Defaulted("bestCombo", "int", JInt(1)),
       Defaulted("sessionDurationSeconds", "int", JInt(0)),
       Required("timestampStart", "str"),
       OptionalStr("timestampEnd") >>

RecordingMetadata ==
    << Required("sessionId", "str"),
       Required("phraseId", "str"),
       Required("phraseText", "str"),
       Required("phraseTier", "int"),
       Required("phraseCategory", "str"),
       Required("phraseRegister", "str"),
       Required("gameLevel", "int"),
       Required("gameSpeed", "float"),
       Required("obstacleDistanceAtSpeechStart", "float"),
       Required("timeToSpeechOnsetMs", "int"),
       Required("speechDurationMs", "int"),
       Required("outcome", "str"),
       Required("scoreAwarded", "int"),
       Required("comboMultiplier", "float"),
       Field("audioPeakAmplitude", "float", FALSE, TRUE, JNull),
       Defaulted("audioClippingDetected", "bool", JBool(FALSE)),
       Required("timestampUtc", "str") >>

\* the field names of a model, in declaration order
FieldNames(model) == [i \in 1..Len(model) |-> model[i].name]

\* Model(**d): whether validation accepts the keyword arguments d.  The
\* inputs of this model give a field a value of its declared type, null, or
\* a value no pydantic version converts (a list for a str, a str for an int).
Validates(model, d) ==
    \A i \in 1..Len(model) :
        LET f == model[i] IN
        IF f.name \in DOMAIN d
        THEN \/ d[f.name].t = f.type
             \/ d[f.name].t = "null" /\ f.nullable
        ELSE ~f.required

\* Model(**d).dict(): the declared fields only, omitted ones at their default
ModelDict(model, d) ==
    [k \in {model[i].name : i \in 1..Len(model)} |->
        LET f == model[CHOOSE i \in 1..Len(model) : model[i].name = k] IN
        IF k \in DOMAIN d THEN d[k] ELSE f.default]

-----------------------------------------------------------------------------
(* Paths *)

\* LOCAL_STORAGE_PATH, the default "./data" as pathlib prints it
LOCAL_STORAGE_PATH == <<"d", "a", "t", "a">>

\* a / b
PathJoin(a, b) == a \o <<"/">> \o b

SessionsDir == PathJoin(LOCAL_STORAGE_PATH, <<"s","e","s","s","i","o","n","s">>)
MetadataDir == PathJoin(LOCAL_STORAGE_PATH, <<"m","e","t","a","d","a","t","a">>)
AudioDir    == PathJoin(LOCAL_STORAGE_PATH, <<"a","u","d","i","o">>)

DotJson == <<".", "j", "s", "o", "n">>
DotWebm == <<".", "w", "e", "b", "m">>

\* open(path, "w") ... write: the file at path now holds content
WriteFile(store, path, content) ==
    [p \in DOMAIN store \cup {path} |-> IF p = path THEN content ELSE store[p]]

NoFiles == [p \in {} |-> 0]

-----------------------------------------------------------------------------
(* Record store *)

\* the file save_session_local writes for a session
SessionPath(session) == PathJoin(SessionsDir, session["id"].s \o DotJson)

\* a save of session.dict(exclude_none=True): the None fields are not written
save_session_local_exclude_none(store, session) ==
    LET order == SelectSeq(FieldNames(SessionData), LAMBDA k : session[k] # JNull)
    IN WriteFile(store, SessionPath(session), JsonDump(session, order))

\* a save that opens the file with "a": a second save of an id appends its
\* document to the first, and the file is no JSON document any more
save_session_local_append(store, session) ==
    LET path == SessionPath(session)
        text == JsonDump(session, FieldNames(SessionData))
    IN WriteFile(store, path,
                 IF path \in DOMAIN store
                 THEN JsonGarbage(store[path].members \o text.members)
                 ELSE text)

\* save_session_local: sessions/{id}.json holds the whole record
save_session_local(store, session) ==
    WriteFile(store, SessionPath(session),
              JsonDump(session, FieldNames(SessionData)))

\* timestampUtc.replace(':', '-')
ReplaceColons(str) == [i \in 1..Len(str) |-> IF str[i] = ":" THEN "-" ELSE str[i]]

\* the file save_recording_metadata_local writes for a recording
MetadataPath(meta) ==
    PathJoin(PathJoin(MetadataDir, meta["sessionId"].s),
             meta["phraseId"].s \o <<"_">> \o ReplaceColons(meta["timestampUtc"].s)
                 \o DotJson)

\* metadata_dir of save_recording_metadata_local: metadata/{sessionId},
\* made with mkdir(parents=True, exist_ok=True) before the file is opened
MetadataDirOf(meta) == PathJoin(MetadataDir, meta["sessionId"].s)

\* the directory of a path: what precedes its last "/"
Dirname(path) ==
    LET i == CHOOSE i \in 1..Len(path) :
                /\ path[i] = "/"
                /\ \A j \in (i + 1)..Len(path) : path[j] # "/"
    IN SubSeq(path, 1, i - 1)

\* dir is an existing directory: the one just made, one of its parents, or
\* one that was made for a file of the store.  (A directory left empty by a
\* write that failed is metadata/{sessionId} of an id without "/" in this
\* model, and no file name asks for it later.)
DirExists(store, made, dir) ==
    LET under(p) == Len(p) > Len(dir) /\ SubSeq(p, 1, Len(dir) + 1) = dir \o <<"/">>
    IN dir = made \/ under(made) \/ \E p \in DOMAIN store : under(p)

\* an open that always succeeds
OpenNeverRaises(store, made, path) == FALSE

\* open(file_path, "w") raises FileNotFoundError: the directory of file_path
\* does not exist.  A phraseId or timestampUtc with a "/" in it makes the
\* file name a path below metadata_dir, into a directory nothing has made.
OpenRaises(store, made, path) == ~DirExists(store, made, Dirname(path))

\* a save under {phraseId}.json, the timestamp left out of the file name
save_recording_metadata_local_no_timestamp(store, meta, audio_path) ==
    LET data == [k \in DOMAIN meta \cup {"audioPath"} |->
                    IF k = "audioPath" THEN JStr(audio_path) ELSE meta[k]]
    IN WriteFile(store,
                 PathJoin(PathJoin(MetadataDir, meta["sessionId"].s),
                          meta["phraseId"].s \o DotJson),
                 JsonDump(data, Append(FieldNames(RecordingMetadata), "audioPath")))

\* save_recording_metadata_local: the record with audioPath added, written
\* to metadata/{sessionId}/{phraseId}_{timestampUtc, colons replaced}.json
save_recording_metadata_local(store, meta, audio_path) ==
    LET data == [k \in DOMAIN meta \cup {"audioPath"} |->
                    IF k = "audioPath" THEN JStr(audio_path) ELSE meta[k]]
    IN WriteFile(store, MetadataPath(meta),
                 JsonDump(data, Append(FieldNames(RecordingMetadata), "audioPath")))

\* the file save_audio_local writes, which is also the locator it returns
AudioPath(session_id, filename) == PathJoin(PathJoin(AudioDir, session_id), filename)

\* save_audio_local: audio/{session_id}/{filename} holds the bytes
save_audio_local(store, session_id, phrase_id, audio_data, filename) ==
    WriteFile(store, AudioPath(session_id, filename), audio_data)

\* R2_BUCKET, the default
R2_BUCKET == <<"v","o","i","c","e","-","r","u","n","n","e","r","-",
               "r","e","c","o","r","d","i","n","g","s">>

\* the key of save_audio_r2: audio/{session_id}/{filename}
R2Key(session_id, filename) ==
    <<"a","u","d","i","o","/">> \o session_id \o <<"/">> \o filename

\* the locator save_audio_r2 returns: r2://{R2_BUCKET}/{key}
R2Locator(session_id, filename) ==
    <<"r","2",":","/","/">> \o R2_BUCKET \o <<"/">> \o R2Key(session_id, filename)

\* save_audio_r2: put_object under the key
save_audio_r2(objects, session_id, phrase_id, audio_data, filename) ==
    WriteFile(objects, R2Key(session_id, filename), audio_data)

\* STORAGE_TYPE and R2_ENDPOINT as os.getenv gives them with nothing set
DefaultConfig == [STORAGE_TYPE |-> "local", R2_ENDPOINT |-> ""]

\* s3_client is a client (truthy) only when STORAGE_TYPE is r2 and an
\* endpoint is configured, and None otherwise
s3_client == config.STORAGE_TYPE = "r2" /\ config.R2_ENDPOINT # ""

\* the branch `STORAGE_TYPE == "r2" and s3_client` of the two audio writers
UseR2 == config.STORAGE_TYPE = "r2" /\ s3_client

-----------------------------------------------------------------------------
(* Time *)

Digit(d) == <<"0", "1", "2", "3", "4", "5", "6", "7", "8", "9">>[d + 1]
TwoDigits(i) == <<Digit((i \div 10) % 10), Digit(i % 10)>>

\* datetime.utcnow().strftime("%Y%m%d_%H%M%S"), for a clock that starts at
\* 2024-01-01T00:00:00 and stays within that day
Strftime(t) ==
    <<"2", "0", "2", "4", "0", "1", "0", "1", "_">>
        \o TwoDigits(t \div 3600) \o TwoDigits((t \div 60) % 60) \o TwoDigits(t % 60)

-----------------------------------------------------------------------------
(* Inputs: the session payloads clients send *)

S1 == <<"s", "1">>
S2 == <<"s", "2">>
Player1 == <<"p", "1">>
Player2 == <<"p", "2">>
T0 == <<"1", "0", ":", "0", "0">>

\* only the required fields
MinSession(id, player) ==
    JsonObject(<< <<"id", JStr(id)>>, <<"playerId", JStr(player)>>,
                  <<"timestampStart", JStr(T0)>> >>)

\* every declared field
FullSession(id, player, score) ==
    JsonObject(<< <<"id", JStr(id)>>, <<"playerId", JStr(player)>>,
                  <<"deviceType", JStr(<<"m">>)>>, <<"browser", JNull>>,
                  <<"demographicAgeRange", JNull>>, <<"demographicParish", JNull>>,
                  <<"demographicPatoisFirst", JNull>>,
                  <<"calibrationPhrases", JList(<< <<"h", "i">> >>)>>,
                  <<"totalPhrasesAttempted", JInt(2)>>,
                  <<"totalPhrasesSucceeded", JInt(1)>>,
                  <<"finalScore", JInt(score)>>, <<"maxLevelReached", JInt(1)>>,
                  <<"bestCombo", JInt(1)>>, <<"sessionDurationSeconds", JInt(9)>>,
                  <<"timestampStart", JStr(T0)>>, <<"timestampEnd", JNull>> >>)

\* the required fields and one the model does not declare
ExtraSession(id, player) ==
    JsonObject(<< <<"id", JStr(id)>>, <<"playerId", JStr(player)>>,
                  <<"timestampStart", JStr(T0)>>, <<"note", JStr(<<"x">>)>> >>)

\* playerId is missing
NoPlayerSession(id) ==
    JsonObject(<< <<"id", JStr(id)>>, <<"timestampStart", JStr(T0)>> >>)

\* finalScore is a list
BadScoreSession(id, player) ==
    JsonObject(<< <<"id", JStr(id)>>, <<"playerId", JStr(player)>>,
                  <<"timestampStart", JStr(T0)>>, <<"finalScore", JList(<<>>)>> >>)

ValidSessionPayloads ==
    { MinSession(S1, Player1), FullSession(S1, Player2, 7), ExtraSession(S2, Player1) }

InvalidSessionPayloads ==
    { JsonGarbage(<<>>), JsonArray, NoPlayerSession(S1), BadScoreSession(S2, Player1) }

SessionPayloads == ValidSessionPayloads \cup InvalidSessionPayloads

-----------------------------------------------------------------------------
(* Responses *)

NoRequest == [op |-> "none", status |-> 0]

Response(op, req, status, body) ==
    [op |-> op, req |-> req, status |-> status, body |-> body]

-----------------------------------------------------------------------------
(* History of the successful writes, kept for stating properties; no       *)
(* handler reads it.                                                       *)
(*   hist.sessions:   session id -> the record its latest save wrote, and  *)
(*                    whether that save replaced a different record        *)
(*   hist.recordings: the bag of recordings saved: the validated metadata, *)
(*                    the locator stored with it and the audio bytes       *)

NoHistory == [sessions |-> [id \in {} |-> 0], recordings |-> EmptyBag]

BagAdd(bag, e) ==
    [x \in DOMAIN bag \cup {e} |->
        IF x = e THEN (IF e \in DOMAIN bag THEN bag[e] + 1 ELSE 1) ELSE bag[x]]

SessionSaved(h, session) ==
    LET id == session["id"].s
        replaced == id \in DOMAIN h.sessions /\ h.sessions[id].record # session
    IN [h EXCEPT !.sessions =
            [i \in DOMAIN h.sessions \cup {id} |->
                IF i = id THEN [record |-> session, replaced |-> replaced]
                          ELSE h.sessions[i]]]

Saved(meta, audio_path, audio_bytes) ==
    [meta |-> meta, audio_path |-> audio_path, audio |-> audio_bytes]

RecordingSaved(h, meta, audio_path, audio_bytes) ==
    [h EXCEPT !.recordings = BagAdd(h.recordings, Saved(meta, audio_path, audio_bytes))]

-----------------------------------------------------------------------------
(* POST /api/upload *)

upload_session(session) ==
    LET parsed == JsonLoads(session)
        req == [session |-> session]
    IN
    /\ nwrites < MaxWrites
    /\ nwrites' = nwrites + 1
    /\ IF parsed.exc = "JSONDecodeError"
       THEN \* except json.JSONDecodeError
            /\ last' = Response("upload_session", req, 400, [detail |-> "Invalid JSON"])
            /\ UNCHANGED <<sessions, hist>>
       ELSE IF parsed.py # "dict" \/ ~Validates(SessionData, parsed.d)
       THEN \* .get on a list, or SessionData(**session_data) raising:
            \* except Exception
            /\ last' = Response("upload_session", req, 500, [detail |-> "Upload failed"])
            /\ UNCHANGED <<sessions, hist>>
       ELSE LET session_obj == ModelDict(SessionData, parsed.d) IN
            /\ sessions' = save_session_local(sessions, session_obj)
            /\ hist' = SessionSaved(hist, session_obj)
            /\ last' = Response("upload_session", req, 200,
                                [success |-> TRUE, sessionId |-> parsed.d["id"],
                                 recordingsReceived |-> 0])
    /\ UNCHANGED <<metadata, audio, bucket, config, now, inflight>>

-----------------------------------------------------------------------------
(* Inputs: the recordings clients send *)

G1 == <<"g", "1">>
Greeting == <<"g", "r", "e", "e", "t", "i", "n", "g">>
Farewell == <<"f", "a", "r", "e", "w", "e", "l", "l">>
Standard == <<"s", "t", "d">>
Patois   == <<"p", "a", "t">>
\* client timestamps; TsA and TsB differ only by a colon
TsA == <<"1", ":", "0">>
TsB == <<"1", "-", "0">>
TsC == <<"2", ":", "0">>

\* the members every recording payload of this model has
RecordingCommon(sessionId, phraseId, ts) ==
    << <<"sessionId", JStr(sessionId)>>, <<"phraseId", JStr(phraseId)>>,
       <<"phraseText", JStr(<<"h", "i">>)>>, <<"phraseTier", JInt(1)>>,
       <<"gameLevel", JInt(1)>>, <<"gameSpeed", JFloat(10)>>,
       <<"obstacleDistanceAtSpeechStart", JFloat(35)>>,
       <<"timeToSpeechOnsetMs", JInt(200)>>, <<"speechDurationMs", JInt(900)>>,
       <<"outcome", JStr(<<"o", "k">>)>>, <<"scoreAwarded", JInt(5)>>,
       <<"comboMultiplier", JFloat(10)>>, <<"audioPeakAmplitude", JNull>>,
       <<"timestampUtc", JStr(ts)>> >>

\* a complete recording payload (audioClippingDetected left to its default)
Recording(sessionId, phraseId, category, register, ts) ==
    JsonObject(RecordingCommon(sessionId, phraseId, ts)
               \o << <<"phraseCategory", JStr(category)>>,
                     <<"phraseRegister", JStr(register)>> >>)

\* phraseCategory is missing
NoCategoryRecording(sessionId, phraseId, register, ts) ==
    JsonObject(RecordingCommon(sessionId, phraseId, ts)
               \o << <<"phraseRegister", JStr(register)>> >>)

ValidRecordingPayloads ==
    { Recording(S1, G1, Greeting, Standard, TsA),
      Recording(S1, G1, Greeting, Standard, TsB),
      Recording(S1, G1, Greeting, Patois, TsC) }

InvalidRecordingPayloads ==
    { JsonGarbage(<<>>), NoCategoryRecording(S1, G1, Standard, TsA) }

RecordingPayloads == ValidRecordingPayloads \cup InvalidRecordingPayloads

\* a client timestamp with a "/" in it, as in a date written 1/0
TsSlash == <<"1", "/", "0">>

\* the session_id and phrase_id form fields
FormSessionIds == {S1}
FormPhraseIds == {G1}

\* the audio size cap of upload_audio: 5 * 1024 * 1024 bytes
MaxAudioBytes == 5 * 1024 * 1024

\* the comparison written with >=
TooLargeOffByOne(audio_bytes) == audio_bytes.len >= MaxAudioBytes

\* `len(audio_bytes) > 5 * 1024 * 1024`
TooLarge(audio_bytes) == audio_bytes.len > MaxAudioBytes

\* audio payloads: their length and what tells their bytes apart
Bytes(len, data) == [data |-> data, len |-> len]
AudioPayloads ==
    { Bytes(1, "a"), Bytes(MaxAudioBytes, "b"), Bytes(MaxAudioBytes + 1, "c") }

-----------------------------------------------------------------------------
(* POST /api/upload/audio.  The handler suspends once, at                  *)
(* `await audio.read()`, after json.loads(metadata) and before every       *)
(* write; from there to its end it awaits nothing.  upload_audio is the    *)
(* handler from that point on (json.loads is pure, so its outcome is       *)
(* looked at here); a request that other handlers run in front of is held  *)
(* in inflight by upload_audio_await while it is suspended.                *)

upload_audio(session_id, phrase_id, meta, audio_bytes) ==
    LET parsed == JsonLoads(meta)
        req == [session_id |-> session_id, phrase_id |-> phrase_id,
                metadata |-> meta, audio |-> audio_bytes]
        timestamp == Strftime(now)
        filename == phrase_id \o <<"_">> \o timestamp \o DotWebm
        audio_path == IF UseR2 THEN R2Locator(session_id, filename)
                               ELSE AudioPath(session_id, filename)
        saved == IF UseR2
                 THEN /\ bucket' = save_audio_r2(bucket, session_id, phrase_id,
                                                 audio_bytes, filename)
                      /\ UNCHANGED audio
                 ELSE /\ audio' = save_audio_local(audio, session_id, phrase_id,
                                                   audio_bytes, filename)
                      /\ UNCHANGED bucket
    IN
    /\ nwrites < MaxWrites
    /\ nwrites' = nwrites + 1
    /\ IF parsed.exc = "JSONDecodeError"
       THEN \* except json.JSONDecodeError
            /\ last' = Response("upload_audio", req, 400,
                                [detail |-> "Invalid metadata JSON"])
            /\ UNCHANGED <<audio, bucket, metadata, hist>>
       ELSE IF TooLarge(audio_bytes)
       THEN \* the HTTPException(400) raised here is an Exception: the
            \* handler's own `except Exception` catches it and raises 500
            /\ last' = Response("upload_audio", req, 500, [detail |-> "Upload failed"])
            /\ UNCHANGED <<audio, bucket, metadata, hist>>
       ELSE IF parsed.py # "dict" \/ ~Validates(RecordingMetadata, parsed.d)
       THEN \* RecordingMetadata(**metadata_dict) raises after the audio
            \* was saved: except Exception
            /\ saved
            /\ last' = Response("upload_audio", req, 500, [detail |-> "Upload failed"])
            /\ UNCHANGED <<metadata, hist>>
       ELSE LET metadata_obj == ModelDict(RecordingMetadata, parsed.d) IN
            IF OpenRaises(metadata, MetadataDirOf(metadata_obj), MetadataPath(metadata_obj))
            THEN \* save_recording_metadata_local raises after the audio was
                 \* saved: except Exception
                 /\ saved
                 /\ last' = Response("upload_audio", req, 500, [detail |-> "Upload failed"])
                 /\ UNCHANGED <<metadata, hist>>
            ELSE
            /\ saved
            /\ metadata' = save_recording_metadata_local(metadata, metadata_obj,
                                                         audio_path)
            /\ hist' = RecordingSaved(hist, metadata_obj, audio_path, audio_bytes)
            /\ last' = Response("upload_audio", req, 200,
                                [success |-> TRUE, audioPath |-> audio_path,
                                 sizeBytes |-> audio_bytes.len])
    /\ inflight' = inflight \ {req}
    /\ UNCHANGED <<sessions, config, now>>

-----------------------------------------------------------------------------
(* process_upload_background: the deferred batch.  The coroutine awaits    *)
(* nothing, so it runs from start to end as one step.                      *)

\* the (metadata, audio_bytes, filename) tuples of a batch
Item(meta, audio_bytes, filename) ==
    [metadata |-> meta, audio |-> audio_bytes, filename |-> filename]

FileA == <<"a">> \o DotWebm
FileB == <<"b">> \o DotWebm
FileC == <<"c">> \o DotWebm

GoodItemA == Item(DictOf(Recording(S1, G1, Greeting, Standard, TsA).members),
                  Bytes(1, "a"), FileA)
BadItem   == Item(DictOf(NoCategoryRecording(S1, G1, Standard, TsC).members),
                  Bytes(1, "b"), FileB)
GoodItemC == Item(DictOf(Recording(S1, G1, Farewell, Patois, TsC).members),
                  Bytes(1, "c"), FileC)

Batches == { <<GoodItemA>>, <<GoodItemA, BadItem, GoodItemC>> }

BackgroundSessions ==
    { DictOf(MinSession(S2, Player2).members), DictOf(NoPlayerSession(S2).members) }

\* the body of the loop for an item whose metadata validates: its audio is
\* saved, then its metadata; exc tells whether the metadata save raised
SaveItem(stores, session, item) ==
    LET meta == ModelDict(RecordingMetadata, item.metadata)
        audio_path ==
            IF UseR2 THEN R2Locator(session["id"].s, item.filename)
                     ELSE AudioPath(session["id"].s, item.filename)
        raises == OpenRaises(stores.metadata, MetadataDirOf(meta), MetadataPath(meta))
    IN [audio |-> IF UseR2 THEN stores.audio
                  ELSE save_audio_local(stores.audio, session["id"].s,
                           meta["phraseId"].s, item.audio, item.filename),
        bucket |-> IF UseR2
                   THEN save_audio_r2(stores.bucket, session["id"].s,
                           meta["phraseId"].s, item.audio, item.filename)
                   ELSE stores.bucket,
        metadata |-> IF raises THEN stores.metadata
                     ELSE save_recording_metadata_local(stores.metadata, meta, audio_path),
        hist |-> IF raises THEN stores.hist
                 ELSE RecordingSaved(stores.hist, meta, audio_path, item.audio),
        exc |-> raises]

\* a loop with its own try/except around each item: a failing item is
\* passed over and the items after it are processed
RECURSIVE SaveRecordingsSkipFailing(_, _, _, _)
SaveRecordingsSkipFailing(stores, session, recordings, i) ==
    IF i > Len(recordings)
    THEN stores
    ELSE LET item == recordings[i] IN
         IF ~Validates(RecordingMetadata, item.metadata)
         THEN SaveRecordingsSkipFailing([stores EXCEPT !.exc = TRUE],
                                        session, recordings, i + 1)
         ELSE LET written == SaveItem(stores, session, item)
              IN SaveRecordingsSkipFailing(
                    [written EXCEPT !.exc = stores.exc \/ written.exc],
                    session, recordings, i + 1)

\* the loop `for metadata_dict, audio_bytes, filename in recordings` from
\* item i on: the stores it leaves, and whether an exception ended it
RECURSIVE SaveRecordings(_, _, _, _)
SaveRecordings(stores, session, recordings, i) ==
    IF i > Len(recordings)
    THEN [stores EXCEPT !.exc = FALSE]
    ELSE LET item == recordings[i] IN
         IF ~Validates(RecordingMetadata, item.metadata)
         THEN \* RecordingMetadata(**metadata_dict) raises: the loop ends
              [stores EXCEPT !.exc = TRUE]
         ELSE LET written == SaveItem(stores, session, item)
              IN IF written.exc
                 THEN \* save_recording_metadata_local raises after the audio
                      \* of the item was saved: the loop ends
                      written
                 ELSE SaveRecordings(written, session, recordings, i + 1)

process_upload_background(session_data, recordings) ==
    LET req == [session_data |-> session_data, recordings |-> recordings]
    IN
    /\ nwrites < MaxWrites
    /\ nwrites' = nwrites + 1
    /\ IF ~Validates(SessionData, session_data)
       THEN \* SessionData(**session_data) raises: except Exception, print
            /\ last' = Response("process_upload_background", req, 0,
                                [printed |-> "Error processing upload"])
            /\ UNCHANGED <<sessions, audio, bucket, metadata, hist>>
       ELSE LET session == ModelDict(SessionData, session_data)
                done == SaveRecordings([audio |-> audio, bucket |-> bucket,
                                        metadata |-> metadata,
                                        hist |-> SessionSaved(hist, session),
                                        exc |-> FALSE],
                                       session, recordings, 1)
            IN
            /\ sessions' = save_session_local(sessions, session)
            /\ audio' = done.audio
            /\ bucket' = done.bucket
            /\ metadata' = done.metadata
            /\ hist' = done.hist
            /\ last' = Response("process_upload_background", req, 0,
                                [printed |-> IF done.exc THEN "Error processing upload"
                                                         ELSE "Processed session"])
    /\ UNCHANGED <<config, now, inflight>>

-----------------------------------------------------------------------------
(* Directory scans *)

HasPrefix(str, pre) == Len(str) >= Len(pre) /\ SubSeq(str, 1, Len(pre)) = pre
HasSuffix(str, suf) ==
    Len(str) >= Len(suf) /\ SubSeq(str, Len(str) - Len(suf) + 1, Len(str)) = suf
\* what follows dir/ in path
Below(path, dir) == SubSeq(path, Len(dir) + 2, Len(path))
Slashes(str) == Cardinality({i \in 1..Len(str) : str[i] = "/"})

\* sessions_dir.glob("*.json"): the .json files directly in sessions/
SessionFiles ==
    {p \in DOMAIN sessions :
        /\ HasPrefix(p, SessionsDir \o <<"/">>)
        /\ Slashes(Below(p, SessionsDir)) = 0
        /\ HasSuffix(p, DotJson)}

\* for session_dir in metadata_dir.iterdir(): session_dir.glob("*.json"):
\* the .json files directly in a directory of metadata/
MetadataFiles ==
    {p \in DOMAIN metadata :
        /\ HasPrefix(p, MetadataDir \o <<"/">>)
        /\ Slashes(Below(p, MetadataDir)) = 1
        /\ HasSuffix(p, DotJson)}

Unknown == JStr(<<"u", "n", "k", "n", "o", "w", "n">>)

\* a table that leaves out the records without the key
BreakdownSkipMissing(records, key) ==
    LET having == {p \in DOMAIN records : key \in DOMAIN records[p].d}
    IN [v \in {records[p].d[key] : p \in having} |->
            Cardinality({p \in having : records[p].d[key] = v})]

\* the frequency table the loop of get_stats builds for one key of the
\* records it loaded
Breakdown(records, key) ==
    LET valueOf(p) == DictGet(records[p].d, key, Unknown)
    IN [v \in {valueOf(p) : p \in DOMAIN records} |->
            Cardinality({p \in DOMAIN records : valueOf(p) = v})]

\* json.load of each scanned file
LoadAll(store, files) == [p \in files |-> JsonLoads(store[p])]

\* json.load of a scanned file raises, or .get is called on what is no dict
ScanRaises(records, needDict) ==
    \E p \in DOMAIN records :
        \/ records[p].exc # ""
        \/ needDict /\ records[p].py # "dict"

-----------------------------------------------------------------------------
(* GET /api/stats *)

StatsBody(session_records, meta_records) ==
    [totalSessions |-> Cardinality(DOMAIN session_records),
     totalRecordings |-> Cardinality(DOMAIN meta_records),
     totalPlayersUnique |->
        Cardinality({DictGet(session_records[p].d, "playerId", Unknown)
                        : p \in DOMAIN session_records}),
     phraseBreakdown |-> Breakdown(meta_records, "phraseCategory"),
     registerBreakdown |-> Breakdown(meta_records, "phraseRegister")]

get_stats ==
    LET session_records == LoadAll(sessions, SessionFiles)
        meta_records == LoadAll(metadata, MetadataFiles)
    IN
    /\ IF ScanRaises(session_records, TRUE) \/ ScanRaises(meta_records, TRUE)
       THEN \* except Exception
            last' = Response("get_stats", <<>>, 500, [detail |-> "Failed to get stats"])
       ELSE last' = Response("get_stats", <<>>, 200,
                             StatsBody(session_records, meta_records))
    /\ UNCHANGED <<sessions, metadata, audio, bucket, config, now, nwrites, hist, inflight>>

-----------------------------------------------------------------------------
(* GET /api/export *)

\* the list the export loop appends to, as a bag: glob's order is the
\* directory's, which the code does not fix
Loaded(records) ==
    LET valueOf(p) == [py |-> records[p].py, d |-> records[p].d]
    IN [v \in {valueOf(p) : p \in DOMAIN records} |->
            Cardinality({p \in DOMAIN records : valueOf(p) = v})]

export_data ==
    LET session_records == LoadAll(sessions, SessionFiles)
        meta_records == LoadAll(metadata, MetadataFiles)
    IN
    /\ IF ScanRaises(session_records, FALSE) \/ ScanRaises(meta_records, FALSE)
       THEN \* except Exception
            last' = Response("export_data", <<>>, 500, [detail |-> "Export failed"])
       ELSE last' = Response("export_data", <<>>, 200,
                [exportedAt |-> now,
                 sessions |-> Loaded(session_records),
                 recordings |-> Loaded(meta_records)])
    /\ UNCHANGED <<sessions, metadata, audio, bucket, config, now, nwrites, hist, inflight>>

-----------------------------------------------------------------------------
(* The clock *)

Tick ==
    /\ now < MaxClock
    /\ now' = now + 1
    /\ UNCHANGED <<sessions, metadata, audio, bucket, config, nwrites, last, hist, inflight>>

-----------------------------------------------------------------------------

Init ==
    /\ sessions = NoFiles
    /\ metadata = NoFiles
    /\ audio = NoFiles
    /\ bucket = NoFiles
    /\ config = DefaultConfig
    /\ now = 0
    /\ nwrites = 0
    /\ last = NoRequest
    /\ hist = NoHistory
    /\ inflight = {}

Next ==
    \/ \E session \in SessionPayloads : upload_session(session)
    \/ \E session_id \in FormSessionIds, phrase_id \in FormPhraseIds,
          meta \in RecordingPayloads, audio_bytes \in AudioPayloads :
            upload_audio(session_id, phrase_id, meta, audio_bytes)
    \/ \E session_data \in BackgroundSessions, recordings \in Batches :
            process_upload_background(session_data, recordings)
    \/ get_stats
    \/ export_data
    \/ Tick

Spec == Init /\ [][Next]_vars

-----------------------------------------------------------------------------
(* A data directory that is not empty at startup.  The startup code makes  *)
(* the directories with exist_ok=True and keeps what they hold: records of *)
(* an earlier run or an earlier client, and files that a run which died    *)
(* between open(path, "w") and the end of json.dump left cut short.        *)

\* the text of a file whose write stopped after the first k members
CutShort(text, k) == JsonGarbage(SubSeq(text.members, 1, k))

\* a recording record written without phraseCategory and phraseRegister
LegacyRecording ==
    JsonObject(RecordingCommon(S1, G1, <<"0", ":", "0">>)
               \o << <<"audioPath", JStr(AudioPath(S1, <<"o", "l", "d">> \o DotWebm))>> >>)
LegacyRecordingPath ==
    PathJoin(PathJoin(MetadataDir, S1), <<"g", "1", "_", "0", "-", "0">> \o DotJson)

CutShortRecordingPath ==
    PathJoin(PathJoin(MetadataDir, S1), <<"g", "1", "_", "9", "-", "0">> \o DotJson)

ExistingMetadata ==
    { NoFiles,
      WriteFile(NoFiles, LegacyRecordingPath, LegacyRecording),
      WriteFile(NoFiles, CutShortRecordingPath, CutShort(LegacyRecording, 3)) }

ExistingSessions ==
    { NoFiles,
      WriteFile(NoFiles, PathJoin(SessionsDir, S2 \o DotJson),
                CutShort(MinSession(S2, Player2), 1)) }

InitDisk ==
    /\ sessions \in ExistingSessions
    /\ metadata \in ExistingMetadata
    /\ audio = NoFiles
    /\ bucket = NoFiles
    /\ config = DefaultConfig
    /\ now = 0
    /\ nwrites = 0
    /\ last = NoRequest
    /\ hist = NoHistory
    /\ inflight = {}

\* the requests that add well-formed records, and the two scans
NextDisk ==
    \/ \E session \in ValidSessionPayloads : upload_session(session)
    \/ \E meta \in ValidRecordingPayloads :
            upload_audio(S1, G1, meta, Bytes(1, "a"))
    \/ get_stats
    \/ export_data
    \/ Tick

SpecDisk == InitDisk /\ [][NextDisk]_vars

-----------------------------------------------------------------------------
(* The storage selector.  STORAGE_TYPE and R2_ENDPOINT are read from the   *)
(* environment once, when the module is loaded, and never assigned again.  *)

\* an R2_ENDPOINT that is set; the code only tests it for emptiness
R2Endpoint == "https://r2"

\* the environments a deployment can start with: nothing set, r2 with an
\* endpoint, and r2 with R2_ENDPOINT left unset
Configs ==
    { DefaultConfig,
      [STORAGE_TYPE |-> "r2", R2_ENDPOINT |-> R2Endpoint],
      [STORAGE_TYPE |-> "r2", R2_ENDPOINT |-> ""] }

InitR2 ==
    /\ sessions = NoFiles
    /\ metadata = NoFiles
    /\ audio = NoFiles
    /\ bucket = NoFiles
    /\ config \in Configs
    /\ now = 0
    /\ nwrites = 0
    /\ last = NoRequest
    /\ hist = NoHistory
    /\ inflight = {}

\* the write requests, with audio under the cap
NextR2 ==
    \/ \E session \in ValidSessionPayloads : upload_session(session)
    \/ \E meta \in RecordingPayloads, audio_bytes \in {Bytes(1, "a"), Bytes(2, "b")} :
            upload_audio(S1, G1, meta, audio_bytes)
    \/ \E session_data \in BackgroundSessions, recordings \in Batches :
            process_upload_background(session_data, recordings)
    \/ Tick

SpecR2 == InitR2 /\ [][NextR2]_vars

-----------------------------------------------------------------------------
(* Single-recording uploads whose metadata step fails, and uploads whose   *)
(* form fields name another session or phrase than their metadata does.    *)

G2 == <<"g", "2">>

\* metadata that validates and is saved, metadata that validates and whose
\* file cannot be opened, metadata that fails the schema, and text that is
\* no JSON
AudioRecordingPayloads ==
    { Recording(S1, G1, Greeting, Standard, TsA),
      Recording(S1, G1, Greeting, Standard, TsSlash),
      NoCategoryRecording(S1, G1, Standard, TsA),
      JsonGarbage(<<>>) }

NextAudio ==
    \/ \E session_id \in {S1, S2}, phrase_id \in {G1, G2},
          meta \in AudioRecordingPayloads :
            upload_audio(session_id, phrase_id, meta, Bytes(1, "a"))
    \/ \E session_data \in BackgroundSessions, recordings \in Batches :
            process_upload_background(session_data, recordings)
    \/ Tick

\* the local store, or the remote one with its client
InitAudio ==
    /\ sessions = NoFiles
    /\ metadata = NoFiles
    /\ audio = NoFiles
    /\ bucket = NoFiles
    /\ config \in {DefaultConfig, [STORAGE_TYPE |-> "r2", R2_ENDPOINT |-> R2Endpoint]}
    /\ now = 0
    /\ nwrites = 0
    /\ last = NoRequest
    /\ hist = NoHistory
    /\ inflight = {}

SpecAudio == InitAudio /\ [][NextAudio]_vars

-----------------------------------------------------------------------------
(* Requests in flight.  Every handler is an `async def` run by the one     *)
(* event loop of `uvicorn.run(app)`: a handler runs until it awaits.       *)
(* upload_session, get_stats and export_data await nothing; upload_audio   *)
(* awaits the body of the audio part once, and other handlers run while it *)
(* is suspended there.                                                     *)

\* a handler that opens its metadata file with "w" before it suspends: the
\* file is there, empty, while the request is in flight
upload_audio_await_after_open(session_id, phrase_id, meta, audio_bytes) ==
    LET parsed == JsonLoads(meta)
        req == [session_id |-> session_id, phrase_id |-> phrase_id,
                metadata |-> meta, audio |-> audio_bytes]
    IN
    /\ parsed.exc = ""
    /\ nwrites + Cardinality(inflight) < MaxWrites
    /\ req \notin inflight
    /\ inflight' = inflight \cup {req}
    /\ IF parsed.py = "dict" /\ Validates(RecordingMetadata, parsed.d)
       THEN metadata' = WriteFile(metadata,
                            MetadataPath(ModelDict(RecordingMetadata, parsed.d)),
                            CutShort(meta, 0))
       ELSE UNCHANGED metadata
    /\ UNCHANGED <<sessions, audio, bucket, config, now, nwrites, last, hist>>

\* the handler has parsed the metadata and is suspended at await audio.read()
upload_audio_await(session_id, phrase_id, meta, audio_bytes) ==
    LET parsed == JsonLoads(meta)
        req == [session_id |-> session_id, phrase_id |-> phrase_id,
                metadata |-> meta, audio |-> audio_bytes]
    IN
    \* a payload that does not parse has raised before the await
    /\ parsed.exc = ""
    /\ nwrites + Cardinality(inflight) < MaxWrites
    /\ req \notin inflight
    /\ inflight' = inflight \cup {req}
    /\ UNCHANGED <<sessions, metadata, audio, bucket, config, now, nwrites, last, hist>>

\* the metadata of the requests that suspend: two that validate and one
\* that does not
AsyncRecordingPayloads ==
    { Recording(S1, G1, Greeting, Standard, TsA),
      Recording(S1, G1, Greeting, Patois, TsC),
      NoCategoryRecording(S1, G1, Standard, TsA) }

NextAsync ==
    \/ \E session \in {MinSession(S1, Player1), ExtraSession(S2, Player1)} :
            upload_session(session)
    \/ \E meta \in AsyncRecordingPayloads :
            upload_audio_await(S1, G1, meta, Bytes(1, "a"))
    \/ \E req \in inflight :
            upload_audio(req.session_id, req.phrase_id, req.metadata, req.audio)
    \/ get_stats
    \/ export_data
    \/ Tick

SpecAsync == Init /\ [][NextAsync]_vars

-----------------------------------------------------------------------------
(* Properties *)

\* the session files whose record carries the id
SessionRecordsFor(id) ==
    {p \in SessionFiles :
        LET r == JsonLoads(sessions[p])
        IN r.py = "dict" /\ DictGet(r.d, "id", JNull) = JStr(id)}

\* C1: starting from an empty store, every session id saved so far (by a
\* whole-session upload or by a background batch) has exactly one session
\* record, that record is the one its most recent successful save wrote,
\* whole, and the store holds no other session file.
C1_LastWriteWins ==
    /\ \A id \in DOMAIN hist.sessions :
            /\ Cardinality(SessionRecordsFor(id)) = 1
            /\ \A p \in SessionRecordsFor(id) :
                    JsonLoads(sessions[p]).d = hist.sessions[id].record
    /\ \A p \in DOMAIN sessions :
            \E id \in DOMAIN hist.sessions : p \in SessionRecordsFor(id)

\* C1's case: a save has replaced a different record of the same id
C1_Overwritten ==
    \E id \in DOMAIN hist.sessions : hist.sessions[id].replaced

\* the metadata payload of a request is one RecordingMetadata accepts
ValidMetadata(text) ==
    LET parsed == JsonLoads(text)
    IN parsed.exc = "" /\ parsed.py = "dict" /\ Validates(RecordingMetadata, parsed.d)

\* C2: a single-recording upload whose audio is longer than 5 MiB is
\* refused and writes nothing (no audio, no metadata, no session); one whose
\* audio is at most 5 MiB, exactly 5 MiB included, with valid metadata
\* succeeds and leaves its bytes under the locator it returns.
C2_SizeCap ==
    [][ (nwrites' = nwrites + 1 /\ last'.op = "upload_audio") =>
            /\ last'.req.audio.len > MaxAudioBytes =>
                    /\ last'.status # 200
                    /\ UNCHANGED <<audio, bucket, metadata, sessions>>
            /\ (last'.req.audio.len <= MaxAudioBytes /\ ValidMetadata(last'.req.metadata)) =>
                    /\ last'.status = 200
                    /\ last'.body.sizeBytes = last'.req.audio.len
                    /\ last'.body.audioPath \in DOMAIN audio'
                    /\ audio'[last'.body.audioPath] = last'.req.audio
      ]_vars

\* C2's case: a blob of exactly 5 MiB is stored and a request of one byte
\* more has just been refused
C2_AtAndOverCap ==
    /\ \E p \in DOMAIN audio : audio[p].len = MaxAudioBytes
    /\ last.op = "upload_audio"
    /\ last.req.audio.len = MaxAudioBytes + 1
    /\ last.status # 200

\* C3: a single-recording upload whose audio exceeds the cap is answered
\* with status 400.
C3_OversizeIs400 ==
    (last.op = "upload_audio" /\ last.req.audio.len > MaxAudioBytes)
        => last.status = 400

\* C4: an upload (of a session or of a recording) whose JSON payload does
\* not parse, or parses to an object that fails the schema, is answered
\* with status 400.
C4_MalformedIs400 ==
    last.op \in {"upload_session", "upload_audio"} =>
        LET text == IF last.op = "upload_session" THEN last.req.session
                                                  ELSE last.req.metadata
            model == IF last.op = "upload_session" THEN SessionData
                                                   ELSE RecordingMetadata
            parsed == JsonLoads(text)
            malformed == \/ parsed.exc # ""
                         \/ parsed.py = "dict" /\ ~Validates(model, parsed.d)
        IN malformed => last.status = 400

\* the files of a store that hold a JSON document
WellFormed(store, files) == {p \in files : JsonLoads(store[p]).exc = ""}

\* C5: a statistics or export scan of a store that holds a malformed record
\* succeeds and reports every well-formed record.
C5_ScanSkipsMalformed ==
    [][ (last'.op \in {"get_stats", "export_data"}
            /\ sessions' = sessions /\ metadata' = metadata) =>
            /\ last'.status = 200
            /\ last'.op = "get_stats" =>
                    /\ last'.body.totalSessions =
                            Cardinality(WellFormed(sessions, SessionFiles))
                    /\ last'.body.totalRecordings =
                            Cardinality(WellFormed(metadata, MetadataFiles))
            /\ last'.op = "export_data" =>
                    /\ BagCardinality(last'.body.sessions) =
                            Cardinality(WellFormed(sessions, SessionFiles))
                    /\ BagCardinality(last'.body.recordings) =
                            Cardinality(WellFormed(metadata, MetadataFiles))
      ]_vars

\* the records of the metadata files that count under value v of a key: the
\* ones that carry v, and under "unknown" also the ones without the key
CountedUnder(key, v) ==
    {p \in MetadataFiles :
        LET d == JsonLoads(metadata[p]).d
        IN IF key \in DOMAIN d THEN d[key] = v ELSE v = Unknown}

\* C6: a statistics response reports as totalRecordings the number of
\* metadata records in the store it scanned; the counts of phraseBreakdown
\* sum to totalRecordings, and so do those of registerBreakdown; each value
\* is counted once per record that carries it, and a record without the
\* field is counted under "unknown".
C6_StatsTotals ==
    [][ (last'.op = "get_stats" /\ last'.status = 200 /\ metadata' = metadata) =>
            LET body == last'.body IN
            /\ body.totalRecordings = Cardinality(MetadataFiles)
            /\ BagCardinality(body.phraseBreakdown) = body.totalRecordings
            /\ BagCardinality(body.registerBreakdown) = body.totalRecordings
            /\ \A v \in DOMAIN body.phraseBreakdown \cup {Unknown} :
                    Cardinality(CountedUnder("phraseCategory", v)) =
                        DictGet(body.phraseBreakdown, v, 0)
            /\ \A v \in DOMAIN body.registerBreakdown \cup {Unknown} :
                    Cardinality(CountedUnder("phraseRegister", v)) =
                        DictGet(body.registerBreakdown, v, 0)
      ]_vars

\* C6's case: categories greeting, greeting and a record without the field
C6_GreetingGreetingUnknown ==
    /\ last.op = "get_stats"
    /\ last.status = 200
    /\ last.body.totalRecordings = 3
    /\ last.body.phraseBreakdown =
            [v \in {JStr(Greeting), Unknown} |-> IF v = Unknown THEN 1 ELSE 2]

C8_DistinctTimestampsDistinctKeys ==
    \A a, b \in DOMAIN hist.recordings :
        a.meta["timestampUtc"] # b.meta["timestampUtc"] =>
            /\ MetadataPath(a.meta) # MetadataPath(b.meta)
            /\ a.audio_path # b.audio_path

\* C9 as claimed: when the recordings saved so far all carry the same
\* metadata (the same upload submitted k times), the store holds k metadata
\* records, one for each successful upload.
C9_EveryUploadAddsARecord ==
    (\A a, b \in DOMAIN hist.recordings : a.meta = b.meta) =>
        Cardinality(MetadataFiles) = BagCardinality(hist.recordings)

\* the storage key of a record:
\* {sessionId}/{phraseId}_{timestampUtc with its colons replaced}
RecordingKey(meta) ==
    meta["sessionId"].s \o <<"/">> \o meta["phraseId"].s \o <<"_">>
        \o [i \in 1..Len(meta["timestampUtc"].s) |->
                IF meta["timestampUtc"].s[i] = ":" THEN "-" ELSE meta["timestampUtc"].s[i]]

\* C9, amended: the store holds one metadata record per distinct storage
\* key {sessionId}/{phraseId}_{timestampUtc with colons replaced} among the
\* recordings saved so far, and each record is one that was saved under its
\* key; a resubmission under a key already used replaces that record.
C9_OneRecordPerKey ==
    /\ Cardinality(MetadataFiles) =
            Cardinality({RecordingKey(e.meta) : e \in DOMAIN hist.recordings})
    /\ \A p \in MetadataFiles :
            \E e \in DOMAIN hist.recordings :
                LET d == JsonLoads(metadata[p]).d
                IN /\ p = PathJoin(MetadataDir, RecordingKey(e.meta)) \o DotJson
                   /\ d["audioPath"] = JStr(e.audio_path)
                   /\ \A k \in DOMAIN e.meta : d[k] = e.meta[k]

\* C9's case: the same metadata was saved twice and the store holds one record
C9_Resubmitted ==
    /\ BagCardinality(hist.recordings) = 2
    /\ \A a, b \in DOMAIN hist.recordings : a.meta = b.meta
    /\ Cardinality(MetadataFiles) = 1

\* C10: no step changes or removes the bytes stored under an audio key.
C10_AudioImmutable ==
    [][ \A p \in DOMAIN audio : p \in DOMAIN audio' /\ audio'[p] = audio[p] ]_vars

\* the scheme r2:// of a remote locator
R2Scheme == <<"r", "2", ":", "/", "/">>

\* C11: when the remote store is selected at startup (STORAGE_TYPE is r2),
\* the remote store is the backend used and the local disk holds nothing:
\* every audio blob saved lies in the bucket under the key its r2:// locator
\* names, and no audio, session or metadata file is written locally.
C11_RemoteLeavesNoLocalFiles ==
    config.STORAGE_TYPE = "r2" =>
        /\ audio = NoFiles
        /\ sessions = NoFiles
        /\ metadata = NoFiles
        /\ \A e \in DOMAIN hist.recordings :
                /\ SubSeq(e.audio_path, 1, Len(R2Scheme)) = R2Scheme
                /\ \E k \in DOMAIN bucket :
                        /\ e.audio_path = R2Scheme \o R2_BUCKET \o <<"/">> \o k
                        /\ bucket[k] = e.audio

\* the whole record of a saved recording: its metadata and its audioPath
WholeRecord(e) ==
    [k \in DOMAIN e.meta \cup {"audioPath"} |->
        IF k = "audioPath" THEN JStr(e.audio_path) ELSE e.meta[k]]

\* C12: a statistics or export scan that runs between uploads, also while
\* upload requests are in flight, succeeds; every record it returns is the
\* whole record of a save that has completed, never part of one; the saves
\* that have completed are all counted and listed, and a request still in
\* flight contributes nothing.
C12_ScanSeesWholeRecords ==
    last.op \in {"get_stats", "export_data"} =>
        /\ last.status = 200
        /\ last.op = "get_stats" =>
                /\ last.body.totalSessions = Cardinality(DOMAIN hist.sessions)
                /\ last.body.totalRecordings =
                        Cardinality({RecordingKey(e.meta) : e \in DOMAIN hist.recordings})
        /\ last.op = "export_data" =>
                /\ \A v \in DOMAIN last.body.sessions :
                        /\ v.py = "dict"
                        /\ \E id \in DOMAIN hist.sessions : v.d = hist.sessions[id].record
                /\ \A id \in DOMAIN hist.sessions :
                        \E v \in DOMAIN last.body.sessions : v.d = hist.sessions[id].record
                /\ \A v \in DOMAIN last.body.recordings :
                        /\ v.py = "dict"
                        /\ \E e \in DOMAIN hist.recordings : v.d = WholeRecord(e)
                /\ \A e \in DOMAIN hist.recordings :
                        \E v \in DOMAIN last.body.recordings :
                            /\ v.d["sessionId"] = e.meta["sessionId"]
                            /\ v.d["phraseId"] = e.meta["phraseId"]
                            /\ ReplaceColons(v.d["timestampUtc"].s) =
                                    ReplaceColons(e.meta["timestampUtc"].s)

\* C12's case: an export has answered with the record of a completed upload
\* while another upload, with valid metadata, is suspended in flight
C12_ScanWhileInFlight ==
    /\ last.op = "export_data"
    /\ last.status = 200
    /\ BagCardinality(last.body.recordings) = 1
    /\ \E req \in inflight : ValidMetadata(req.metadata)

\* the key audio/{session_id}/{phrase_id}_{arrival time}.webm of a request
\* handled in the current second
BlobKey(req) ==
    <<"a", "u", "d", "i", "o", "/">> \o req.session_id \o <<"/">>
        \o req.phrase_id \o <<"_">> \o Strftime(now) \o DotWebm

\* the step has left the audio of the request under its key in the store
\* selected at startup, and has removed no blob
BlobKept(req) ==
    /\ IF config.STORAGE_TYPE = "r2" /\ config.R2_ENDPOINT # ""
       THEN /\ BlobKey(req) \in DOMAIN bucket'
            /\ bucket'[BlobKey(req)] = req.audio
       ELSE /\ PathJoin(LOCAL_STORAGE_PATH, BlobKey(req)) \in DOMAIN audio'
            /\ audio'[PathJoin(LOCAL_STORAGE_PATH, BlobKey(req))] = req.audio
    /\ DOMAIN audio \subseteq DOMAIN audio'
    /\ DOMAIN bucket \subseteq DOMAIN bucket'

\* C13 as claimed: whenever a single-recording upload with audio within the
\* cap fails, its audio blob is stored all the same and no metadata record
\* is written.
C13_FailedMetadataLeavesOrphan ==
    [][ (nwrites' = nwrites + 1 /\ last'.op = "upload_audio"
            /\ last'.req.audio.len <= MaxAudioBytes /\ last'.status # 200) =>
            /\ BlobKept(last'.req)
            /\ metadata' = metadata
      ]_vars

\* C13, amended: the metadata payload is parsed before the audio is
\* written and validated after.  An upload with audio within the cap whose
\* metadata is no JSON is answered 400 and stores nothing.  One whose
\* metadata parses but fails the schema, or validates but names a file that
\* cannot be opened (a "/" in its timestampUtc), is answered 500, leaves its
\* audio blob stored under its key, writes no metadata record, and nothing
\* is deleted.
C13_OrphanUnlessUnparseable ==
    [][ (nwrites' = nwrites + 1 /\ last'.op = "upload_audio"
            /\ last'.req.audio.len <= MaxAudioBytes) =>
            LET req == last'.req
                parsed == JsonLoads(req.metadata)
                schemaFails == parsed.py # "dict" \/ ~Validates(RecordingMetadata, parsed.d)
                writeFails == /\ ~schemaFails
                              /\ \E i \in DOMAIN parsed.d["timestampUtc"].s :
                                    parsed.d["timestampUtc"].s[i] = "/"
            IN
            /\ parsed.exc # "" =>
                    /\ last'.status = 400
                    /\ UNCHANGED <<audio, bucket, metadata, sessions>>
            /\ (parsed.exc = "" /\ (schemaFails \/ writeFails)) =>
                    /\ last'.status = 500
                    /\ BlobKept(req)
                    /\ metadata' = metadata
      ]_vars

\* C13's case: an upload whose metadata validates has failed at the
\* metadata write; its blob is stored and the store holds no metadata record
C13_OrphanAfterWriteFailure ==
    /\ last.op = "upload_audio"
    /\ last.status = 500
    /\ ValidMetadata(last.req.metadata)
    /\ last.req.audio.len <= MaxAudioBytes
    /\ metadata = NoFiles
    /\ \E p \in DOMAIN audio \cup DOMAIN bucket :
            (IF p \in DOMAIN audio THEN audio[p] ELSE bucket[p]) = last.req.audio

\* the batch items whose metadata RecordingMetadata accepts
ValidItems(recordings) ==
    {i \in DOMAIN recordings : Validates(RecordingMetadata, recordings[i].metadata)}

\* the metadata file of an item, and the audio file of an item of a batch
\* sent with the session id
ItemMetadataFile(item) ==
    MetadataDir \o <<"/">> \o item.metadata["sessionId"].s \o <<"/">>
        \o item.metadata["phraseId"].s \o <<"_">>
        \o ReplaceColons(item.metadata["timestampUtc"].s) \o DotJson
ItemAudioFile(id, item) == AudioDir \o <<"/">> \o id \o <<"/">> \o item.filename

LocatorKey(locator) ==
    IF SubSeq(locator, 1, Len(R2Scheme)) = R2Scheme
    THEN SubSeq(locator, Len(R2Scheme) + Len(R2_BUCKET) + 2, Len(locator))
    ELSE SubSeq(locator, Len(LOCAL_STORAGE_PATH) + 2, Len(locator))

\* C15: every metadata record in the store is consistent with the audio it
\* points to: its audioPath names a blob that exists, that blob is filed
\* under audio/{sessionId}/{phraseId}_ for the sessionId and phraseId of the
\* record itself, and the record of the upload just answered carries the
\* locator returned to the client.
C15_RecordAndAudioFiledTogether ==
    /\ \A p \in MetadataFiles :
            LET d == JsonLoads(metadata[p]).d
                locator == d["audioPath"].s
                prefix == <<"a", "u", "d", "i", "o", "/">> \o d["sessionId"].s
                              \o <<"/">> \o d["phraseId"].s \o <<"_">>
            IN /\ locator \in DOMAIN audio \/ LocatorKey(locator) \in DOMAIN bucket
               /\ SubSeq(LocatorKey(locator), 1, Len(prefix)) = prefix
    /\ (last.op = "upload_audio" /\ last.status = 200) =>
            \E p \in MetadataFiles :
                JsonLoads(metadata[p]).d["audioPath"] = JStr(last.body.audioPath)

====
